---- MODULE Spec2Model ----
(***************************************************************************)
(* Model of the YouTube video summarizer batch job (main.py).              *)
(*                                                                         *)
(* Strings are sequences of one-character strings, so that writing a line  *)
(* to processed_videos.txt, splitting the file into lines, strip() and     *)
(* re.sub() are computed character by character as Python computes them.   *)
(*                                                                         *)
(* main.py is available up to the feedparser.parse call of the channel     *)
(* loop; the loop over the entries of a feed follows the design            *)
(* description of the Pipeline Orchestrator and the Summary Writer. The    *)
(* model starts after the module-level credential check has passed.        *)
(***************************************************************************)
EXTENDS Integers, Sequences, FiniteSets, TLC

VARIABLES
    fileExists,        \* PROCESSED_VIDEOS_FILE.is_file()
    fileContent,       \* the characters of processed_videos.txt
    artifacts,         \* summaries/: file name -> content
    summariesDir,      \* SUMMARIES_DIR exists
    processed_videos,  \* main's in-memory set (result of the last load)
    new_videos_found,  \* main's flag
    run,               \* number of runs of main started so far
    pc,                \* position of the control flow of main
    ci,                \* index of the channel of the outer loop
    ei,                \* index of the entry of the inner loop
    entries,           \* feed.entries of the current channel
    transcript,        \* result of get_transcript for the current entry
    summary,           \* result of summarize_text for the current entry
    abortCause,        \* which call raised out of main, "none" if none did
    feeds,             \* what each channel's feed publishes (input)
    h,                 \* history of the current run (observation only)
    recorded,          \* every id handed to save_processed_video, in order
    writeCount,        \* id -> number of artifact writes, over all runs
    name,              \* argument of sanitize_filename
    sanitized          \* value sanitize_filename returned

vars == <<fileExists, fileContent, artifacts, summariesDir, processed_videos,
          new_videos_found, run, pc, ci, ei, entries, transcript, summary,
          abortCause, feeds, h, recorded, writeCount, name, sanitized>>

\* Python's None; every value a call returns otherwise is a non-empty tuple
None == <<>>

----------------------------------------------------------------------------
(* Bounds of the model *)

MaxEntries == 3
MaxRuns == 2
MaxLines == 3
MaxNameLen == 3

----------------------------------------------------------------------------
(* Characters and strings *)

NL == "\n"
Whitespace == {" ", "\t", NL, "\r"}

SeqsUpTo(S, n) == UNION {[1..k -> S] : k \in 0..n}

Range(s) == {s[i] : i \in DOMAIN s}

Count(x, s) == Cardinality({i \in DOMAIN s : s[i] = x})

\* str.strip(): leading and trailing whitespace removed
RECURSIVE lstrip(_)
lstrip(s) == IF s # <<>> /\ Head(s) \in Whitespace THEN lstrip(Tail(s)) ELSE s

RECURSIVE rstrip(_)
rstrip(s) ==
    IF s # <<>> /\ s[Len(s)] \in Whitespace
    THEN rstrip(SubSeq(s, 1, Len(s) - 1))
    ELSE s

strip(s) == rstrip(lstrip(s))

\* Iterating a text file: each line keeps its "\n"; a last line may lack it.
RECURSIVE FileLinesFrom(_, _)
FileLinesFrom(content, cur) ==
    IF content = <<>>
    THEN IF cur = <<>> THEN <<>> ELSE <<cur>>
    ELSE IF Head(content) = NL
         THEN <<Append(cur, NL)>> \o FileLinesFrom(Tail(content), <<>>)
         ELSE FileLinesFrom(Tail(content), Append(cur, Head(content)))

FileLines(content) == FileLinesFrom(content, <<>>)

----------------------------------------------------------------------------
(* State Store: processed_videos.txt *)

\* variant: the file is never read
get_processed_videos_unread(exists, content) == {}

\* variant: set(line for line in f), the lines keep their "\n"
get_processed_videos_unstripped(exists, content) ==
    IF ~exists THEN {} ELSE Range(FileLines(content))

\* set(line.strip() for line in f), or set() when there is no file
get_processed_videos(exists, content) ==
    IF ~exists
    THEN {}
    ELSE {strip(line) : line \in Range(FileLines(content))}

\* variant: open(..., "w")
save_processed_video_truncating(content, video_id) == video_id \o <<NL>>

\* variant: f.write(f"{video_id}")
save_processed_video_unterminated(content, video_id) == content \o video_id

\* variant: an identifier the file holds is not written again
save_processed_video_deduplicating(content, video_id) ==
    IF \E i \in DOMAIN FileLines(content) : strip(FileLines(content)[i]) = video_id
    THEN content
    ELSE content \o video_id \o <<NL>>

\* open(..., "a"); f.write(f"{video_id}\n"): the new content of the file
save_processed_video(content, video_id) == content \o video_id \o <<NL>>

----------------------------------------------------------------------------
(* Adapters *)

\* how a call of an external service ends: with a result or with an exception
Outcomes == {"ok", "error"}

\* an exception leaving the function instead of a returned value
Raised == <<"Raised">>

\* variant: the except branch returns a text instead of None
get_transcript_on_error_text(video_id, outcome) == <<"transcript", video_id>>

\* the joined transcript, or None when YouTubeTranscriptApi raises
get_transcript(video_id, outcome) ==
    IF outcome = "ok" THEN <<"transcript", video_id>> ELSE None

\* variant: the except branch returns a text instead of None
summarize_text_on_error_text(text, title, outcome) == <<"summary", title, text>>

\* response.text, or None when model.generate_content raises
summarize_text(text, title, outcome) ==
    IF outcome = "ok" THEN <<"summary", title, text>> ELSE None

----------------------------------------------------------------------------
(* sanitize_filename *)

Forbidden == {"\\", "/", "*", "?", ":", "\"", "<", ">", "|"}

RECURSIVE Remove(_, _)
Remove(chars, s) ==
    IF s = <<>> THEN <<>>
    ELSE IF Head(s) \in chars
         THEN Remove(chars, Tail(s))
         ELSE <<Head(s)>> \o Remove(chars, Tail(s))

\* the character class with "?" left unescaped outside it
sanitize_filename_keeps_question_mark(title) == Remove(Forbidden \ {"?"}, title)

\* re.sub(r'[\\/*?:"<>|]', "", name)
sanitize_filename(title) == Remove(Forbidden, title)

----------------------------------------------------------------------------
(* Configuration and inputs *)

\* CHANNELS: two channels, iterated in insertion order
CHANNELS == <<"Selcoin", "Bora Ozkent Official">>

\* The videos the feeds may carry. The titles differ only in forbidden
\* characters, so that the two videos share one artifact name.
Videos ==
    { [id |-> <<"a">>,      title |-> <<"T", ":">>],
      [id |-> <<"a", "b">>, title |-> <<"T", "?">>] }

Ids == {v.id : v \in Videos}

\* One feed per channel, MaxEntries entries in all; an identifier may recur
\* within a feed and across feeds.
FeedChoices ==
    {f \in [DOMAIN CHANNELS -> SeqsUpTo(Videos, MaxEntries)] :
        Len(f[1]) + Len(f[2]) <= MaxEntries}

\* feedparser.parse ends in one of three ways: with the entries of the feed;
\* with no entries, for a failure it reports in the result (bozo); or with an
\* exception it does not catch (a connection dropped while the response is
\* read).
FeedOutcomes == {"ok", "error", "raise"}

\* feed.entries of a call that returned
feedparser_parse(channel, outcome) ==
    IF outcome = "ok" THEN feeds[channel] ELSE <<>>

----------------------------------------------------------------------------
(* main *)

EmptyHistory ==
    [ linesAtStart |-> <<>>, attempted |-> <<>>,
      feedFailed |-> {}, skipped |-> {}, tOk |-> {}, tFailed |-> {},
      sOk |-> {}, sFailed |-> {}, written |-> {}, wFailed |-> {},
      saved |-> {} ]

\* variant: the identifier is recorded before the artifact is written
PipelineRecordFirst == <<"transcript", "summarize", "record", "write", "add">>

\* The order of the steps of one new video
Pipeline == <<"transcript", "summarize", "write", "record", "add">>

After(stage) ==
    LET i == CHOOSE k \in DOMAIN Pipeline : Pipeline[k] = stage
    IN  Pipeline[i + 1]

video == entries[ei]

Idle == pc \in {"idle", "done", "aborted"}

sanitizerVars == <<name, sanitized>>
stableVars == <<feeds, summariesDir, new_videos_found>>
fileVars == <<fileExists, fileContent, recorded>>
loopVars == <<ci, ei, entries>>

\* main, up to the channel loop: SUMMARIES_DIR.mkdir(exist_ok=True), and the
\* store is loaded once
StartRun ==
    /\ Idle
    /\ run < MaxRuns
    /\ run' = run + 1
    /\ processed_videos' = get_processed_videos(fileExists, fileContent)
    /\ h' = [EmptyHistory EXCEPT !.linesAtStart = FileLines(fileContent)]
    /\ ci' = 1
    /\ ei' = 1
    /\ entries' = <<>>
    /\ transcript' = None
    /\ summary' = None
    /\ abortCause' = "none"
    /\ summariesDir' = TRUE
    /\ new_videos_found' = FALSE
    /\ pc' = "channel"
    /\ UNCHANGED <<fileVars, artifacts, writeCount, feeds, sanitizerVars>>

\* for channel_name, rss_url in CHANNELS.items(): feed = feedparser.parse(rss_url)
\* The call is not inside a try: an exception of parse leaves main.
FetchFeed ==
    /\ pc = "channel"
    /\ ci <= Len(CHANNELS)
    /\ \E outcome \in FeedOutcomes :
          /\ h' = [h EXCEPT
                      !.attempted = Append(@, ci),
                      !.feedFailed = IF outcome = "ok" THEN @ ELSE @ \cup {ci}]
          /\ IF outcome = "raise"
             THEN /\ pc' = "aborted"
                  /\ abortCause' = "feed"
                  /\ UNCHANGED <<entries, ei>>
             ELSE /\ entries' = feedparser_parse(ci, outcome)
                  /\ ei' = 1
                  /\ pc' = "entry"
                  /\ abortCause' = abortCause
    /\ UNCHANGED <<fileVars, artifacts, writeCount, processed_videos, run, ci,
                   transcript, summary, stableVars, sanitizerVars>>

\* the channel loop is exhausted: main returns
FinishRun ==
    /\ pc = "channel"
    /\ ci > Len(CHANNELS)
    /\ pc' = "done"
    /\ UNCHANGED <<fileVars, artifacts, writeCount, processed_videos, run,
                   loopVars, transcript, summary, abortCause, h, stableVars,
                   sanitizerVars>>

\* the entry loop of a channel is exhausted
EndOfFeed ==
    /\ pc = "entry"
    /\ ei > Len(entries)
    /\ ci' = ci + 1
    /\ pc' = "channel"
    /\ UNCHANGED <<fileVars, artifacts, writeCount, processed_videos, run, ei,
                   entries, transcript, summary, abortCause, h, stableVars,
                   sanitizerVars>>

\* an entry whose identifier is in the processed set is skipped
SkipProcessed ==
    /\ pc = "entry"
    /\ ei <= Len(entries)
    /\ video.id \in processed_videos
    /\ ei' = ei + 1
    /\ h' = [h EXCEPT !.skipped = @ \cup {video.id}]
    /\ UNCHANGED <<fileVars, artifacts, writeCount, processed_videos, run, pc,
                   ci, entries, transcript, summary, abortCause, stableVars,
                   sanitizerVars>>

\* an entry whose identifier is not in the processed set enters the pipeline
NewVideo ==
    /\ pc = "entry"
    /\ ei <= Len(entries)
    /\ video.id \notin processed_videos
    /\ new_videos_found' = TRUE
    /\ transcript' = None
    /\ summary' = None
    /\ pc' = Pipeline[1]
    /\ UNCHANGED <<fileVars, artifacts, writeCount, processed_videos, run,
                   loopVars, abortCause, h, feeds, summariesDir, sanitizerVars>>

\* transcript = get_transcript(video_id); no transcript: next entry
FetchTranscript ==
    /\ pc = "transcript"
    /\ \E outcome \in Outcomes :
          /\ transcript' = get_transcript(video.id, outcome)
          /\ h' = [h EXCEPT
                      !.tOk = IF outcome = "ok" THEN @ \cup {video.id} ELSE @,
                      !.tFailed = IF outcome = "ok" THEN @ ELSE @ \cup {video.id}]
    /\ IF transcript' = Raised
       THEN pc' = "aborted" /\ abortCause' = "transcript" /\ ei' = ei
       ELSE IF transcript' = None
            THEN pc' = "entry" /\ ei' = ei + 1 /\ abortCause' = abortCause
            ELSE pc' = After("transcript") /\ ei' = ei /\ abortCause' = abortCause
    /\ UNCHANGED <<fileVars, artifacts, writeCount, processed_videos, run, ci,
                   entries, summary, stableVars, sanitizerVars>>

\* summary = summarize_text(transcript, title); no summary: next entry
Summarize ==
    /\ pc = "summarize"
    /\ \E outcome \in Outcomes :
          /\ summary' = summarize_text(transcript, video.title, outcome)
          /\ h' = [h EXCEPT
                      !.sOk = IF outcome = "ok" THEN @ \cup {video.id} ELSE @,
                      !.sFailed = IF outcome = "ok" THEN @ ELSE @ \cup {video.id}]
    /\ IF summary' = Raised
       THEN pc' = "aborted" /\ abortCause' = "summary" /\ ei' = ei
       ELSE IF summary' = None
            THEN pc' = "entry" /\ ei' = ei + 1 /\ abortCause' = abortCause
            ELSE pc' = After("summarize") /\ ei' = ei /\ abortCause' = abortCause
    /\ UNCHANGED <<fileVars, artifacts, writeCount, processed_videos, run, ci,
                   entries, transcript, stableVars, sanitizerVars>>

\* the summary is written to summaries/<sanitized title>, replacing a file of
\* that name. A write the file system refuses records nothing: the exception
\* either leaves main or is caught and the entry skipped.
WriteSummary ==
    /\ pc = "write"
    /\ summariesDir
    /\ \E outcome \in Outcomes, caught \in BOOLEAN :
          IF outcome = "ok"
          THEN LET file == sanitize_filename(video.title)
               IN  /\ ~caught
                   /\ artifacts' =
                        [n \in DOMAIN artifacts \cup {file} |->
                            IF n = file THEN summary ELSE artifacts[n]]
                   /\ writeCount' = [writeCount EXCEPT ![video.id] = @ + 1]
                   /\ h' = [h EXCEPT !.written = @ \cup {video.id}]
                   /\ pc' = After("write")
                   /\ UNCHANGED <<abortCause, ei>>
          ELSE /\ h' = [h EXCEPT !.wFailed = @ \cup {video.id}]
               /\ IF caught
                  THEN pc' = "entry" /\ ei' = ei + 1 /\ abortCause' = abortCause
                  ELSE pc' = "aborted" /\ ei' = ei /\ abortCause' = "write"
               /\ UNCHANGED <<artifacts, writeCount>>
    /\ UNCHANGED <<fileVars, processed_videos, run, ci, entries, transcript,
                   summary, stableVars, sanitizerVars>>

\* save_processed_video(video_id)
RecordVideo ==
    /\ pc = "record"
    /\ fileContent' = save_processed_video(fileContent, video.id)
    /\ fileExists' = TRUE
    /\ recorded' = Append(recorded, video.id)
    /\ h' = [h EXCEPT !.saved = @ \cup {video.id}]
    /\ pc' = After("record")
    /\ UNCHANGED <<artifacts, writeCount, processed_videos, run, loopVars,
                   transcript, summary, abortCause, stableVars, sanitizerVars>>

\* processed_videos.add(video_id); next entry
AddProcessed ==
    /\ pc = "add"
    /\ processed_videos' = processed_videos \cup {video.id}
    /\ ei' = ei + 1
    /\ pc' = "entry"
    /\ UNCHANGED <<fileVars, artifacts, writeCount, run, ci, entries,
                   transcript, summary, abortCause, h, stableVars, sanitizerVars>>

RunStep ==
    \/ FetchFeed
    \/ FinishRun
    \/ EndOfFeed
    \/ SkipProcessed
    \/ NewVideo
    \/ FetchTranscript
    \/ Summarize
    \/ WriteSummary
    \/ RecordVideo
    \/ AddProcessed

Init ==
    /\ fileExists = FALSE
    /\ fileContent = <<>>
    /\ artifacts = <<>>
    /\ summariesDir = FALSE
    /\ processed_videos = {}
    /\ new_videos_found = FALSE
    /\ run = 0
    /\ pc = "idle"
    /\ ci = 1
    /\ ei = 1
    /\ entries = <<>>
    /\ transcript = None
    /\ summary = None
    /\ abortCause = "none"
    /\ feeds \in FeedChoices
    /\ h = EmptyHistory
    /\ recorded = <<>>
    /\ writeCount = [v \in Ids |-> 0]
    /\ name = <<>>
    /\ sanitized = <<>>

Next == StartRun \/ RunStep

Spec == Init /\ [][Next]_vars

----------------------------------------------------------------------------
(* The State Store on its own: record and load in any order *)

InitStore ==
    /\ fileExists = FALSE
    /\ fileContent = <<>>
    /\ artifacts = <<>>
    /\ summariesDir = FALSE
    /\ processed_videos = {}
    /\ new_videos_found = FALSE
    /\ run = 0
    /\ pc = "store"
    /\ ci = 1
    /\ ei = 1
    /\ entries = <<>>
    /\ transcript = None
    /\ summary = None
    /\ abortCause = "none"
    /\ feeds = [c \in DOMAIN CHANNELS |-> <<>>]
    /\ h = EmptyHistory
    /\ recorded = <<>>
    /\ writeCount = [v \in Ids |-> 0]
    /\ name = <<>>
    /\ sanitized = <<>>

\* the identifiers handed to the store: those of the videos and one more, so
\* that two of them written one after the other spell a third
StoreIds == Ids \cup {<<"b">>}

\* save_processed_video(video_id), for any identifier
StoreRecord ==
    /\ pc \in {"store", "loaded"}
    /\ Len(recorded) < MaxLines
    /\ \E video_id \in StoreIds :
          /\ fileContent' = save_processed_video(fileContent, video_id)
          /\ recorded' = Append(recorded, video_id)
    /\ fileExists' = TRUE
    /\ pc' = "store"
    /\ UNCHANGED <<artifacts, processed_videos, run, loopVars, transcript,
                   summary, abortCause, h, writeCount, stableVars, sanitizerVars>>

\* processed_videos = get_processed_videos()
StoreLoad ==
    /\ pc \in {"store", "loaded"}
    /\ processed_videos' = get_processed_videos(fileExists, fileContent)
    /\ pc' = "loaded"
    /\ UNCHANGED <<fileVars, artifacts, run, loopVars, transcript, summary,
                   abortCause, h, writeCount, stableVars, sanitizerVars>>

NextStore == StoreRecord \/ StoreLoad

SpecStore == InitStore /\ [][NextStore]_vars

----------------------------------------------------------------------------
(* sanitize_filename on its own *)

\* the characters titles are drawn from: the forbidden ones and three others
TitleChars == Forbidden \cup {"T", " ", "1"}

\* Top 10: "Best" Tips?
ExampleTitle ==
    <<"T", "o", "p", " ", "1", "0", ":", " ", "\"", "B", "e", "s", "t", "\"",
      " ", "T", "i", "p", "s", "?">>

\* Top 10 Best Tips
ExampleFileName ==
    <<"T", "o", "p", " ", "1", "0", " ", "B", "e", "s", "t",
      " ", "T", "i", "p", "s">>

InitSanitize ==
    /\ fileExists = FALSE
    /\ fileContent = <<>>
    /\ artifacts = <<>>
    /\ summariesDir = FALSE
    /\ processed_videos = {}
    /\ new_videos_found = FALSE
    /\ run = 0
    /\ pc = "call"
    /\ ci = 1
    /\ ei = 1
    /\ entries = <<>>
    /\ transcript = None
    /\ summary = None
    /\ abortCause = "none"
    /\ feeds = [c \in DOMAIN CHANNELS |-> <<>>]
    /\ h = EmptyHistory
    /\ recorded = <<>>
    /\ writeCount = [v \in Ids |-> 0]
    /\ name \in SeqsUpTo(TitleChars, MaxNameLen) \cup {ExampleTitle}
    /\ sanitized = <<>>

Sanitize ==
    /\ pc = "call"
    /\ sanitized' = sanitize_filename(name)
    /\ pc' = "returned"
    /\ UNCHANGED <<fileVars, artifacts, processed_videos, run, loopVars,
                   transcript, summary, abortCause, h, writeCount, stableVars,
                   name>>

NextSanitize == Sanitize

SpecSanitize == InitSanitize /\ [][NextSanitize]_vars

----------------------------------------------------------------------------
(* What the properties speak about *)

StoreLines == FileLines(fileContent)

\* number of lines of the store that hold the identifier
LineCount(id) ==
    Cardinality({i \in DOMAIN StoreLines : strip(StoreLines[i]) = id})

InStore(id) == LineCount(id) > 0

\* the identifiers the store held when the current run started
StoreAtStart == {strip(line) : line \in Range(h.linesAtStart)}

LineCountAtStart(id) ==
    Cardinality({i \in DOMAIN h.linesAtStart : strip(h.linesAtStart[i]) = id})

TitleOf(id) == (CHOOSE v \in Videos : v.id = id).title

HasArtifact(id) == sanitize_filename(TitleOf(id)) \in DOMAIN artifacts

FeedIds(c) == {feeds[c][i].id : i \in DOMAIN feeds[c]}

\* the artifact of id is written and its record step has not run yet
BetweenWriteAndRecord(id) == pc = "record" /\ video.id = id

----------------------------------------------------------------------------
(* Properties *)

C2_RecordAfterWrite ==
    /\ \A id \in Ids :
          /\ id \in h.saved => id \in h.written
          /\ LineCount(id) > LineCountAtStart(id) => id \in h.written
          /\ id \in processed_videos \ StoreAtStart =>
                id \in h.written /\ id \in h.saved
    /\ pc \in {"record", "add"} =>
          video.id \in h.written /\ HasArtifact(video.id)
    /\ pc = "write" => video.id \notin h.saved /\ ~InStore(video.id)
    /\ (pc = "aborted" /\ abortCause = "write") =>
          video.id \notin h.saved /\ ~InStore(video.id)

\* the record step of a video has run, after its write
C2_Witness == pc = "add" /\ video.id \in h.saved /\ video.id \in h.written

C4_ProcessedNeverRefetched ==
    \A id \in StoreAtStart :
        /\ id \notin h.tOk \cup h.tFailed
        /\ id \notin h.sOk \cup h.sFailed
        /\ LineCount(id) = LineCountAtStart(id)
        /\ ~(pc \in Range(Pipeline) /\ video.id = id)

\* a run skipped an identifier of the store that both channels carry
C4_Witness ==
    /\ pc = "done"
    /\ h.feedFailed = {}
    /\ \E id \in StoreAtStart \cap h.skipped : id \in FeedIds(1) \cap FeedIds(2)

NotProcessed(id) ==
    /\ ~InStore(id)
    /\ id \notin get_processed_videos(fileExists, fileContent)
    /\ id \notin h.saved
    /\ id \notin h.written

\* C5 as stated: after a run, a video with a failed transcript fetch that was
\* not in the store before is absent from the store, not summarized and
\* without artifact.
C5_TranscriptFailureAbsent ==
    pc = "done" =>
        \A id \in h.tFailed \ StoreAtStart :
            NotProcessed(id) /\ id \notin h.sOk \cup h.sFailed

\* C5 as amended: a video with a failed transcript fetch and no successful
\* one in the run, not in the store before, is absent from the store, not
\* summarized and without artifact of this run, during and after the run, and
\* a load of the store does not return it.
C5_TranscriptFailureAbsentUnlessRefetched ==
    \A id \in (h.tFailed \ h.tOk) \ StoreAtStart :
        NotProcessed(id) /\ id \notin h.sOk \cup h.sFailed

\* a run ended in which a transcript fetch failed and another video went through
C5_Witness ==
    /\ pc = "done"
    /\ (h.tFailed \ h.tOk) \ StoreAtStart # {}
    /\ h.saved # {}

\* C6 as stated: after a run, a video with a failed summarization that was
\* not in the store before is absent from the store and without artifact.
C6_SummaryFailureAbsent ==
    pc = "done" => \A id \in h.sFailed \ StoreAtStart : NotProcessed(id)

\* C6 as amended: a video with a failed summarization and no successful one
\* in the run, not in the store before, is absent from the store and without
\* artifact of this run, during and after the run.
C6_SummaryFailureAbsentUnlessResummarized ==
    \A id \in (h.sFailed \ h.sOk) \ StoreAtStart : NotProcessed(id)

\* a run ended in which a summarization failed and another video went through
C6_Witness ==
    /\ pc = "done"
    /\ (h.sFailed \ h.sOk) \ StoreAtStart # {}
    /\ h.saved # {}

ChannelsInOrder(n) == [i \in 1..n |-> i]

\* C8: no feed, transcript or summarization failure aborts a run: a run is
\* aborted by a refused artifact write only; the channels are attempted in
\* configured order and all of them before the run is done; a failed feed
\* leaves its channel without entries and the other channel with its feed.
C8_FailureIsolation ==
    /\ pc = "aborted" => abortCause = "write"
    /\ h.attempted = ChannelsInOrder(Len(h.attempted))
    /\ pc = "done" => h.attempted = ChannelsInOrder(Len(CHANNELS))
    /\ (~Idle /\ pc # "channel") =>
          entries = IF ci \in h.feedFailed THEN <<>> ELSE feeds[ci]

\* C9: sanitize_filename returns the title without its forbidden characters,
\* the others in their order; the result holds no forbidden character; the
\* example title gives the example file name.
C9_Sanitize ==
    pc = "returned" =>
        /\ sanitized = SelectSeq(name, LAMBDA c : c \notin Forbidden)
        /\ \A i \in DOMAIN sanitized : sanitized[i] \notin Forbidden
        /\ name = ExampleTitle => sanitized = ExampleFileName

\* the example title has been sanitized
C9_Witness ==
    /\ pc = "returned"
    /\ name = ExampleTitle
    /\ sanitized = ExampleFileName

\* C10: the store holds one line per record call, in call order, the same
\* identifier as often as it was recorded; a load returns every identifier
\* recorded before it; a missing file loads as the empty set.
C10_AppendOnly ==
    /\ StoreLines = [i \in DOMAIN recorded |-> recorded[i] \o <<NL>>]
    /\ \A id \in StoreIds : LineCount(id) = Count(id, recorded)
    /\ pc = "loaded" => processed_videos = Range(recorded)
    /\ (pc = "loaded" /\ ~fileExists) => processed_videos = {}
    /\ fileExists <=> recorded # <<>>

\* an identifier recorded twice has been loaded
C10_Witness ==
    /\ pc = "loaded"
    /\ \E id \in processed_videos : LineCount(id) = 2
    /\ Cardinality(processed_videos) = 2

====
